---- MODULE Spec2Model ----
(***************************************************************************)
(* A model of yarovolk18/stock_downloader: the Streamlit dashboard         *)
(* (src/app.py) and the daily batch script                                 *)
(* (src/download_selected_stocks.py).                                      *)
(*                                                                         *)
(*   SpecCatalog  : repeated calls of the cached load_sp500_tickers        *)
(*   Spec         : one run of the dashboard script or of the batch script *)
(*                  over a symbol list and the bars the provider returns   *)
(*   SpecSnapshot : one run of the dashboard script over the snapshots     *)
(*                  (Ticker.info) the provider returns                     *)
(*   SpecMA       : one run of the dashboard script over long close series *)
(***************************************************************************)
EXTENDS Integers, Sequences, FiniteSets, TLC

VARIABLES
    \* ---- Ticker catalog loader (src/app.py:14-37)
    cache,          \* what st.cache_data holds for load_sp500_tickers
    ncalls,         \* calls of load_sp500_tickers made so far
    fetched,        \* calls so far whose body fetched a catalog and returned it
    lastCall,       \* the last call: what the sources served, what was contacted, the outcome
    history,        \* every call so far: what it contacted and its outcome
    \* ---- the inputs of one script run
    program,        \* "catalog" | "app" | "batch"
    pc,             \* the script's position
    selected_symbols, \* app.py:42 selected_symbols / download_selected_stocks.py:9 tickers
    bars,           \* provider: symbol -> the price bars in the date range
    infos,          \* provider: symbol -> Ticker.info (a dict)
    \* ---- the script's own variables
    i,              \* loop index into selected_symbols
    all_selected_data, combined_selected_df,
    daily_rows, df_open_close,
    data,
    metrics,        \* the st.metric / st.caption calls of the overview, in order
    ticker_csvs,    \* the per-symbol "<ticker>_historical.csv" downloads, in order
    ma,             \* the detailed table (ticker, Close, MA20, MA50), once built
    portfolio, df_portfolio,
    all_rows, df,
    provider_calls, \* the provider calls issued so far (yf.download, yf.Ticker(..).info)
    raised          \* the exception that ended the script ("" while none)

catalogVars == <<cache, ncalls, fetched, lastCall, history>>
inputVars   == <<program, selected_symbols, bars, infos>>
exportVars  == <<all_selected_data, combined_selected_df, daily_rows, df_open_close>>
dashVars    == <<data, metrics, ticker_csvs, ma, portfolio, df_portfolio>>
batchVars   == <<all_rows, df>>
scriptVars  == <<pc, i, exportVars, dashVars, batchVars, provider_calls, raised>>
vars == <<catalogVars, inputVars, scriptVars>>

\* ---------------------------------------------------------------- bounds
MaxCalls == 3
MaxRows == 1

\* ---------------------------------------------------------------- helpers
Range(s) == {s[k] : k \in 1..Len(s)}

RECURSIVE Flatten(_)
Flatten(ss) == IF ss = <<>> THEN <<>> ELSE Head(ss) \o Flatten(Tail(ss))

\* ======================================================================
\* Ticker catalog loader
\* ======================================================================

\* A DataFrame of strings: its column names and its rows (cells in column order).
TickerOf  == <<"AAPL", "MSFT", "NVDA">>
CompanyOf == <<"Apple Inc.", "Microsoft Corp.", "Nvidia Corp.">>
ShortNameOf == <<"Apple", "Microsoft", "Nvidia">>

Cell(col, r) ==
    CASE col \in {"Symbol", "Ticker"}              -> TickerOf[r]
      [] col \in {"Security", "Company"}           -> CompanyOf[r]
      [] col = "Name"                              -> ShortNameOf[r]
      [] OTHER                                     -> "Information Technology"

MkDF(cols, n) ==
    [columns |-> cols,
     rows    |-> [r \in 1..n |-> [j \in 1..Len(cols) |-> Cell(cols[j], r)]]]

EmptyDF == [columns |-> <<>>, rows |-> <<>>]

\* What the primary (HTML) page can serve to requests.get + pd.read_html.
PrimaryColumns ==
    { <<"Symbol", "Security", "GICS Sector">>,
      <<"Security", "GICS Sector", "Symbol">>,
      <<"Ticker", "Company">>,
      <<"Symbol", "Name">>,
      <<"Security", "GICS Sector">> }

PrimaryResponses ==
    {[kind |-> k, df |-> EmptyDF] : k \in {"request_raises", "parse_raises", "no_tables"}}
    \cup {[kind |-> "tables", df |-> MkDF(c, n)] : c \in PrimaryColumns, n \in 0..MaxRows}

\* What the secondary (CSV) URL can serve to pd.read_csv.
SecondaryColumns ==
    { <<"Symbol", "Name", "Sector">>,
      <<"Symbol", "Security", "Sector">>,
      <<"Name", "Symbol">>,
      <<"Symbol", "Name", "Security">>,
      <<"Ticker", "Company">>,
      <<"Symbol", "Sector">>,
      <<"Name", "Sector">>,
      <<"Security", "Sector">> }

SecondaryResponses ==
    {[kind |-> k, df |-> EmptyDF] : k \in {"unreachable", "malformed"}}
    \cup {[kind |-> "csv", df |-> MkDF(c, n)] : c \in SecondaryColumns, n \in 0..MaxRows}

\* The outcome of a call: a returned frame or a raised exception.
Returned(d) == [kind |-> "returned", df |-> d, error |-> ""]
Raised(e)   == [kind |-> "raised", df |-> EmptyDF, error |-> e]
NoOutcome   == [kind |-> "none", df |-> EmptyDF, error |-> ""]

IndexOf(cols, c) == CHOOSE j \in 1..Len(cols) : cols[j] = c

\* df[[c1, c2]]: the named columns in the order asked; KeyError when one is missing.
SelectColumns(d, want) ==
    IF \A k \in 1..Len(want) : want[k] \in Range(d.columns)
    THEN Returned([columns |-> want,
                   rows |-> [r \in 1..Len(d.rows) |->
                               [k \in 1..Len(want) |-> d.rows[r][IndexOf(d.columns, want[k])]]]])
    ELSE Raised("KeyError")

\* df.rename(columns={old: new})
Rename(d, old, new) ==
    [d EXCEPT !.columns = [k \in 1..Len(d.columns) |->
                              IF d.columns[k] = old THEN new ELSE d.columns[k]]]

\* A bug the try block could have: only the request's failure is caught.
PrimaryCatchesRequestOnly(prim) ==
    CASE prim.kind = "request_raises" -> [kind |-> "except", df |-> EmptyDF, error |-> "RequestException"]
      [] prim.kind = "parse_raises"   -> [kind |-> "raise", df |-> EmptyDF, error |-> "ValueError"]
      [] prim.kind = "no_tables"      -> [kind |-> "fallthrough", df |-> EmptyDF, error |-> ""]
      [] OTHER ->
            LET sel == SelectColumns(prim.df, <<"Symbol", "Security">>) IN
            IF sel.kind = "returned"
            THEN [kind |-> "return", df |-> sel.df, error |-> ""]
            ELSE [kind |-> "raise", df |-> EmptyDF, error |-> sel.error]

\* app.py:16-24, the try block: "return" with the frame, "except" (an exception was
\* caught and printed), "fallthrough" (tables was empty), never "raise".
PrimaryAttempt(prim) ==
    CASE prim.kind = "request_raises" -> [kind |-> "except", df |-> EmptyDF, error |-> "RequestException"]
      [] prim.kind = "parse_raises"   -> [kind |-> "except", df |-> EmptyDF, error |-> "ValueError"]
      [] prim.kind = "no_tables"      -> [kind |-> "fallthrough", df |-> EmptyDF, error |-> ""]
      [] OTHER ->
            LET sel == SelectColumns(prim.df, <<"Symbol", "Security">>) IN
            IF sel.kind = "returned"
            THEN [kind |-> "return", df |-> sel.df, error |-> ""]
            ELSE [kind |-> "except", df |-> EmptyDF, error |-> sel.error]

\* A bug the fallback could have: an empty catalog instead of the ValueError.
FallbackGuessesEmpty(sec) ==
    CASE sec.kind = "unreachable" -> Raised("URLError")
      [] sec.kind = "malformed"   -> Raised("ParserError")
      [] OTHER ->
            IF "Name" \in Range(sec.df.columns)
            THEN LET sel == SelectColumns(sec.df, <<"Symbol", "Name">>) IN
                 IF sel.kind = "returned"
                 THEN Returned(Rename(sel.df, "Name", "Security"))
                 ELSE sel
            ELSE IF "Security" \in Range(sec.df.columns)
            THEN SelectColumns(sec.df, <<"Symbol", "Security">>)
            ELSE Returned(MkDF(<<"Symbol", "Security">>, 0))

\* app.py:26-35, the fallback: pd.read_csv's own error when the URL cannot be read
\* or parsed, the column selection's KeyError, or the ValueError of line 34.
Fallback(sec) ==
    CASE sec.kind = "unreachable" -> Raised("URLError")
      [] sec.kind = "malformed"   -> Raised("ParserError")
      [] OTHER ->
            IF "Name" \in Range(sec.df.columns)
            THEN LET sel == SelectColumns(sec.df, <<"Symbol", "Name">>) IN
                 IF sel.kind = "returned"
                 THEN Returned(Rename(sel.df, "Name", "Security"))
                 ELSE sel
            ELSE IF "Security" \in Range(sec.df.columns)
            THEN SelectColumns(sec.df, <<"Symbol", "Security">>)
            ELSE Raised("ValueError")

\* app.py:15-35, the body of load_sp500_tickers.
load_sp500_tickers(prim, sec) ==
    LET p == PrimaryAttempt(prim) IN
    CASE p.kind = "return" -> [contacted |-> <<"primary">>, outcome |-> Returned(p.df)]
      [] p.kind = "raise"  -> [contacted |-> <<"primary">>, outcome |-> Raised(p.error)]
      [] OTHER             -> [contacted |-> <<"primary", "secondary">>, outcome |-> Fallback(sec)]

NoCache == [valid |-> FALSE, df |-> EmptyDF]

\* A bug the memoisation could have: nothing is ever stored.
StoreNothing(c, outcome) == c

\* app.py:14, @st.cache_data: a returned value is stored, a raised call stores nothing.
CacheStore(c, outcome) ==
    IF outcome.kind = "returned" THEN [valid |-> TRUE, df |-> outcome.df] ELSE c

NoSource == [kind |-> "none", df |-> EmptyDF]

\* app.py:14 and 37: one call through the cache. On a hit the body does not run and
\* no source is read; on a miss the body runs against what the sources serve now.
CallLoad ==
    /\ program = "catalog"
    /\ ncalls < MaxCalls
    /\ IF cache.valid
       THEN /\ lastCall' = [primary |-> NoSource, secondary |-> NoSource,
                            contacted |-> <<>>, outcome |-> Returned(cache.df)]
            /\ UNCHANGED <<cache, fetched>>
       ELSE \E prim \in PrimaryResponses, sec \in SecondaryResponses :
               LET r == load_sp500_tickers(prim, sec) IN
               /\ lastCall' = [primary |-> prim, secondary |-> sec,
                               contacted |-> r.contacted, outcome |-> r.outcome]
               /\ cache' = CacheStore(cache, r.outcome)
               /\ fetched' = fetched + (IF r.outcome.kind = "returned" THEN 1 ELSE 0)
    /\ ncalls' = ncalls + 1
    /\ history' = Append(history, [contacted |-> lastCall'.contacted,
                                   outcome |-> lastCall'.outcome])
    /\ UNCHANGED <<inputVars, scriptVars>>

NoCall == [primary |-> NoSource, secondary |-> NoSource, contacted |-> <<>>,
           outcome |-> NoOutcome]

ScriptIdle ==
    /\ pc = "idle" /\ i = 0
    /\ all_selected_data = <<>> /\ combined_selected_df = <<>>
    /\ daily_rows = <<>> /\ df_open_close = <<>>
    /\ data = <<>> /\ metrics = <<>> /\ ticker_csvs = <<>> /\ ma = <<>>
    /\ portfolio = <<>> /\ df_portfolio = <<>>
    /\ all_rows = <<>> /\ df = <<>>
    /\ provider_calls = <<>> /\ raised = ""

CatalogIdle ==
    /\ cache = NoCache /\ ncalls = 0 /\ fetched = 0
    /\ lastCall = NoCall /\ history = <<>>

InitCatalog ==
    /\ program = "catalog"
    /\ selected_symbols = <<>> /\ bars = <<>> /\ infos = <<>>
    /\ CatalogIdle
    /\ ScriptIdle

SpecCatalog == InitCatalog /\ [][CallLoad]_vars

\* ======================================================================
\* Numbers: Python floats and pandas cells, kept exact
\* ======================================================================
Num(n)  == [kind |-> "num", num |-> n, den |-> 1]
NaN     == [kind |-> "nan", num |-> 0, den |-> 1]
PosInf  == [kind |-> "inf", num |-> 1, den |-> 1]
NegInf  == [kind |-> "inf", num |-> -1, den |-> 1]
NoneV   == [kind |-> "None", num |-> 0, den |-> 1]

Abs(n) == IF n < 0 THEN -n ELSE n

RECURSIVE GCD(_, _)
GCD(a, b) == IF b = 0 THEN a ELSE GCD(b, a % b)

\* n/d in lowest terms with a positive denominator (d # 0).
Frac(n, d) ==
    LET g == GCD(Abs(n), Abs(d))
        sg == IF d < 0 THEN -1 ELSE 1
    IN [kind |-> "num", num |-> sg * (n \div g), den |-> sg * (d \div g)]

FSub(a, b) ==
    IF a.kind = "num" /\ b.kind = "num"
    THEN Frac(a.num * b.den - b.num * a.den, a.den * b.den)
    ELSE NaN

\* IEEE division, as numpy divides a column: x/0 is inf or -inf, 0/0 is nan.
FDiv(a, b) ==
    IF a.kind # "num" \/ b.kind # "num" THEN NaN
    ELSE IF b.num = 0
         THEN (IF a.num > 0 THEN PosInf ELSE IF a.num < 0 THEN NegInf ELSE NaN)
         ELSE Frac(a.num * b.den, a.den * b.num)

FMul(a, k) ==
    IF a.kind = "num" THEN Frac(a.num * k, a.den) ELSE a

\* Python truthiness of None, 0 and the other numbers.
Truthy(v) == v.kind # "None" /\ ~(v.kind = "num" /\ v.num = 0)

\* What st.metric, st.caption and the table show: the marker "N/A", a number
\* formatted with two decimals (":.2f", kept as hundredths, ties to even), or nothing.
NA         == [text |-> "N/A", cents |-> 0]
NotShown   == [text |-> "", cents |-> 0]
Format2(v) ==
    LET n == v.num * 100
        q == n \div v.den
        r == n - q * v.den
    IN [text |-> "fmt",
        cents |-> IF 2 * r > v.den \/ (2 * r = v.den /\ q % 2 = 1) THEN q + 1 ELSE q]

\* ======================================================================
\* The data provider
\* ======================================================================
MaxSymbols == 3
MaxBars == 2
MaxSnapSymbols == 2
MaxSeries == 52

\* The symbols a run can name: default_tickers of app.py:41.
default_tickers == <<"AAPL", "MSFT", "NVDA">>
Min(a, b) == IF a < b THEN a ELSE b
Symbols == {default_tickers[k] : k \in 1..Len(default_tickers)}

\* One price bar of a close c on trading day d.
MkBar(d, c) ==
    [Date |-> d, Open |-> c - 1, High |-> c + 2, Low |-> c - 3, Close |-> c, Volume |-> 1000]

\* A close series of n days with a jump at day k.
Series(n, k) == [d \in 1..n |-> MkBar(d, 100 + d + (IF d >= k THEN 7 ELSE 0))]

\* yf.download(ticker, start, end): the symbol's bars in the range, none when it has none.
Download(ticker) == bars[ticker]

\* Ticker.info: a dict; a field the provider does not report is missing from it.
Billion == 1000000000
InfoDict(cp, pv, mc) ==
    LET raw == [k \in {"currentPrice", "previousClose", "marketCap"} |->
                   IF k = "currentPrice" THEN cp ELSE IF k = "previousClose" THEN pv ELSE mc]
    IN [k \in {f \in DOMAIN raw : raw[f] # <<>>} |-> raw[k][1]]

Infos == {InfoDict(cp, pv, mc) : cp \in {<<>>, <<100>>, <<150>>},
                                 pv \in {<<>>, <<0>>, <<100>>},
                                 mc \in {<<>>, <<20000000>>}}

FullInfo == InfoDict(<<150>>, <<100>>, <<20000000>>)

\* info.get(key, default)
Get(info, key, default) == IF key \in DOMAIN info THEN Num(info[key]) ELSE default

\* ======================================================================
\* The dashboard script (src/app.py:53-199)
\* ======================================================================

\* A bug the aggregation could have: the newest frame is put first.
Prepend(list, x) == <<x>> \o list

\* list.append, app.py:61 and 93, download_selected_stocks.py:26.
ListAppend(list, x) == Append(list, x)

\* pd.concat(frames, ignore_index=True), for a list that is not empty.
Concat(frames) == Flatten(frames)

\* app.py:59-60: reset_index and the Ticker column.
WithTicker(frame, ticker) ==
    [r \in 1..Len(frame) |->
        [Date |-> frame[r].Date, Open |-> frame[r].Open, High |-> frame[r].High,
         Low |-> frame[r].Low, Close |-> frame[r].Close, Volume |-> frame[r].Volume,
         Ticker |-> ticker]]

\* app.py:89-91: reset_index, the Ticker column, and the four columns kept.
OpenCloseOnly(frame, ticker) ==
    [r \in 1..Len(frame) |->
        [Date |-> frame[r].Date, Ticker |-> ticker,
         Open |-> frame[r].Open, Close |-> frame[r].Close]]

Call(op, arg) == [op |-> op, arg |-> arg]

\* app.py:53, the sidebar's guard.
SidebarGuard ==
    /\ program = "app" /\ pc = "start" /\ raised = ""
    /\ IF selected_symbols # <<>>
       THEN pc' = "full_export" /\ i' = 1
       ELSE pc' = "guard" /\ i' = i
    /\ UNCHANGED <<catalogVars, inputVars, exportVars, dashVars, batchVars,
                   provider_calls, raised>>

\* app.py:57-61, one iteration of the full export loop.
FullExportStep ==
    /\ program = "app" /\ pc = "full_export" /\ raised = ""
    /\ i <= Len(selected_symbols)
    /\ LET ticker == selected_symbols[i]
           df_ticker == WithTicker(Download(ticker), ticker)
       IN /\ provider_calls' = Append(provider_calls, Call("download", <<ticker>>))
          /\ all_selected_data' = ListAppend(all_selected_data, df_ticker)
    /\ i' = i + 1
    /\ UNCHANGED <<catalogVars, inputVars, pc, combined_selected_df, daily_rows,
                   df_open_close, dashVars, batchVars, raised>>

\* app.py:63-76: the loop is over, the frames are concatenated and offered as CSV.
\* pd.concat raises ValueError on an empty list.
FullExportConcat ==
    /\ program = "app" /\ pc = "full_export" /\ raised = ""
    /\ i > Len(selected_symbols)
    /\ IF all_selected_data = <<>>
       THEN raised' = "ValueError" /\ UNCHANGED <<combined_selected_df, pc, i>>
       ELSE /\ combined_selected_df' = Concat(all_selected_data)
            /\ pc' = "open_close" /\ i' = 1
            /\ raised' = raised
    /\ UNCHANGED <<catalogVars, inputVars, all_selected_data, daily_rows, df_open_close,
                   dashVars, batchVars, provider_calls>>

\* app.py:83-93, one iteration of the Open/Close loop.
OpenCloseStep ==
    /\ program = "app" /\ pc = "open_close" /\ raised = ""
    /\ i <= Len(selected_symbols)
    /\ LET ticker == selected_symbols[i]
           df_daily == Download(ticker)
       IN /\ provider_calls' = Append(provider_calls, Call("download", <<ticker>>))
          /\ daily_rows' = IF df_daily = <<>>
                           THEN daily_rows
                           ELSE ListAppend(daily_rows, OpenCloseOnly(df_daily, ticker))
    /\ i' = i + 1
    /\ UNCHANGED <<catalogVars, inputVars, pc, all_selected_data, combined_selected_df,
                   df_open_close, dashVars, batchVars, raised>>

\* app.py:95-107: the extract is built only when some symbol had bars.
OpenCloseConcat ==
    /\ program = "app" /\ pc = "open_close" /\ raised = ""
    /\ i > Len(selected_symbols)
    /\ df_open_close' = IF daily_rows # <<>> THEN Concat(daily_rows) ELSE df_open_close
    /\ pc' = "guard"
    /\ UNCHANGED <<catalogVars, inputVars, i, all_selected_data, combined_selected_df,
                   daily_rows, dashVars, batchVars, provider_calls, raised>>

\* A bug the guard could have: the script goes on with nothing selected.
NeverStops(symbols) == FALSE

\* app.py:112, "if not selected_symbols".
ShouldStop(symbols) == symbols = <<>>

\* app.py:112-114: st.warning and st.stop() end the run when nothing is selected.
StopGuard ==
    /\ program = "app" /\ pc = "guard" /\ raised = ""
    /\ pc' = IF ShouldStop(selected_symbols) THEN "stopped" ELSE "load_data"
    /\ UNCHANGED <<catalogVars, inputVars, i, exportVars, dashVars, batchVars,
                   provider_calls, raised>>

MaxOf(S) == IF S = {} THEN 0 ELSE CHOOSE m \in S : \A x \in S : x <= m

\* yf.download(tickers, group_by="ticker"): one frame over the union of the dates,
\* a symbol's cells NaN on the days it has no bar. (With one symbol the frame is
\* flat and lines 153 and 168 read data itself; FrameOf is that accessor.)
GroupedDownload(tickers) ==
    LET days == MaxOf({Len(bars[t]) : t \in Range(tickers)}) IN
    [t \in Range(tickers) |->
        [d \in 1..days |->
            IF d <= Len(bars[t])
            THEN [Date |-> d, Close |-> Num(bars[t][d].Close)]
            ELSE [Date |-> d, Close |-> NaN]]]

\* app.py:153/168: data[ticker] if len(selected_symbols) > 1 else data
FrameOf(d, ticker) == d[ticker]

\* app.py:124-132: load_data, then st.columns(len(selected_symbols)), which refuses 0.
LoadData ==
    /\ program = "app" /\ pc = "load_data" /\ raised = ""
    /\ provider_calls' = Append(provider_calls, Call("download", selected_symbols))
    /\ data' = GroupedDownload(selected_symbols)
    /\ IF selected_symbols = <<>>
       THEN raised' = "StreamlitAPIException" /\ UNCHANGED <<pc, i>>
       ELSE pc' = "overview" /\ i' = 1 /\ raised' = raised
    /\ UNCHANGED <<catalogVars, inputVars, exportVars, metrics, ticker_csvs, ma,
                   portfolio, df_portfolio, batchVars>>

\* app.py:134-148: the metric of one symbol.
OverviewMetric(ticker, info) ==
    LET current_price == Get(info, "currentPrice", NoneV)
        previous_close == Get(info, "previousClose", NoneV)
        change == IF Truthy(current_price) /\ Truthy(previous_close)
                  THEN FMul(FDiv(FSub(current_price, previous_close), previous_close), 100)
                  ELSE NoneV
    IN [label   |-> ticker,
        value   |-> IF Truthy(current_price) THEN Format2(current_price) ELSE NA,
        delta   |-> IF Truthy(change) THEN Format2(change) ELSE NA,
        caption |-> IF "marketCap" \in DOMAIN info
                    THEN Format2(Frac(info["marketCap"], Billion))
                    ELSE NotShown]

\* app.py:133-148, one iteration of the overview loop.
OverviewStep ==
    /\ program = "app" /\ pc = "overview" /\ raised = ""
    /\ LET ticker == selected_symbols[i] IN
          /\ provider_calls' = Append(provider_calls, Call("info", <<ticker>>))
          /\ metrics' = Append(metrics, OverviewMetric(ticker, infos[ticker]))
    /\ IF i = Len(selected_symbols)
       THEN pc' = "charts" /\ i' = 1
       ELSE pc' = pc /\ i' = i + 1
    /\ UNCHANGED <<catalogVars, inputVars, exportVars, data, ticker_csvs, ma,
                   portfolio, df_portfolio, batchVars, raised>>

\* app.py:152-163, one iteration of the price history loop: the symbol's Close
\* series, charted and offered as "<ticker>_historical.csv".
ChartStep ==
    /\ program = "app" /\ pc = "charts" /\ raised = ""
    /\ LET ticker == selected_symbols[i]
           ticker_data == [r \in 1..Len(FrameOf(data, ticker)) |->
                              [Date |-> FrameOf(data, ticker)[r].Date,
                               Close |-> FrameOf(data, ticker)[r].Close]]
       IN ticker_csvs' = Append(ticker_csvs, [ticker |-> ticker, rows |-> ticker_data])
    /\ IF i = Len(selected_symbols)
       THEN pc' = "detail" /\ i' = 1
       ELSE pc' = pc /\ i' = i + 1
    /\ UNCHANGED <<catalogVars, inputVars, exportVars, data, metrics, ma,
                   portfolio, df_portfolio, batchVars, provider_calls, raised>>

FAdd(a, b) ==
    IF a.kind = "num" /\ b.kind = "num"
    THEN Frac(a.num * b.den + b.num * a.den, a.den * b.den)
    ELSE NaN

\* The sum of series[lo..hi], halving the range.
RECURSIVE SumFrom(_, _, _)
SumFrom(series, lo, hi) ==
    IF lo > hi THEN Num(0)
    ELSE IF lo = hi THEN series[lo]
    ELSE LET mid == (lo + hi) \div 2
         IN FAdd(SumFrom(series, lo, mid), SumFrom(series, mid + 1, hi))

\* The moving-average windows of app.py:169 and 170.
WindowMA20 == 20
WindowMA50 == 50

\* A bug the rolling mean could have: min_periods=1, a mean over the rows there are.
RollingMeanPartial(series, w) ==
    [r \in 1..Len(series) |->
        LET lo == IF r < w THEN 1 ELSE r - w + 1 IN
        IF \E j \in lo..r : series[j].kind # "num"
        THEN NaN
        ELSE FDiv(SumFrom(series, lo, r), Num(r - lo + 1))]

\* series.rolling(w).mean(): min_periods is w, so a row with fewer than w rows up
\* to it, or with a NaN among those w, is NaN.
RollingMean(series, w) ==
    [r \in 1..Len(series) |->
        IF r < w \/ \E j \in (r - w + 1)..r : series[j].kind # "num"
        THEN NaN
        ELSE FDiv(SumFrom(series, r - w + 1, r), Num(w))]

\* app.py:167-176: the detailed table of the symbol picked in the selectbox.
DetailedChart ==
    /\ program = "app" /\ pc = "detail" /\ raised = ""
    /\ \E selected_ticker \in Range(selected_symbols) :
          LET close == [r \in 1..Len(FrameOf(data, selected_ticker)) |->
                           FrameOf(data, selected_ticker)[r].Close]
          IN ma' = <<[ticker |-> selected_ticker, Close |-> close,
                      MA20 |-> RollingMean(close, WindowMA20),
                      MA50 |-> RollingMean(close, WindowMA50)]>>
    /\ pc' = "portfolio" /\ i' = 1
    /\ UNCHANGED <<catalogVars, inputVars, exportVars, data, metrics, ticker_csvs,
                   portfolio, df_portfolio, batchVars, provider_calls, raised>>

\* round(x, 2)
Round2(v) == IF v.kind = "num" THEN Frac(Format2(v).cents, 100) ELSE v

\* app.py:182-188: the portfolio row of one symbol.
PortfolioRow(ticker, info) ==
    [Ticker        |-> ticker,
     Price         |-> Get(info, "currentPrice", Num(0)),
     PreviousClose |-> Get(info, "previousClose", Num(0)),
     MarketCapB    |-> Round2(FDiv(Get(info, "marketCap", Num(0)), Num(Billion)))]

\* app.py:181-188, one iteration of the portfolio loop.
PortfolioStep ==
    /\ program = "app" /\ pc = "portfolio" /\ raised = ""
    /\ i <= Len(selected_symbols)
    /\ LET ticker == selected_symbols[i] IN
          /\ provider_calls' = Append(provider_calls, Call("info", <<ticker>>))
          /\ portfolio' = ListAppend(portfolio, PortfolioRow(ticker, infos[ticker]))
    /\ i' = i + 1
    /\ UNCHANGED <<catalogVars, inputVars, pc, exportVars, data, metrics, ticker_csvs,
                   ma, df_portfolio, batchVars, raised>>

\* app.py:191: the "Change %" column, computed cell by cell.
ChangePercent(row) ==
    FMul(FDiv(FSub(row.Price, row.PreviousClose), row.PreviousClose), 100)

\* app.py:194-198: how st.dataframe shows a cell under "{:,.2f}".
FormatCell(v) == IF v.kind = "num" THEN Format2(v) ELSE [text |-> v.kind, cents |-> 0]

\* app.py:190-198: the portfolio frame, its "Change %" column, and what is shown.
PortfolioFrame ==
    /\ program = "app" /\ pc = "portfolio" /\ raised = ""
    /\ i > Len(selected_symbols)
    /\ df_portfolio' =
          [r \in 1..Len(portfolio) |->
              [Ticker        |-> portfolio[r].Ticker,
               Price         |-> portfolio[r].Price,
               PreviousClose |-> portfolio[r].PreviousClose,
               MarketCapB    |-> portfolio[r].MarketCapB,
               ChangePct     |-> ChangePercent(portfolio[r]),
               shown         |-> [Price         |-> FormatCell(portfolio[r].Price),
                                  PreviousClose |-> FormatCell(portfolio[r].PreviousClose),
                                  MarketCapB    |-> FormatCell(portfolio[r].MarketCapB)]]]
    /\ pc' = "done"
    /\ UNCHANGED <<catalogVars, inputVars, i, exportVars, data, metrics, ticker_csvs,
                   ma, portfolio, batchVars, provider_calls, raised>>

AppNext ==
    \/ SidebarGuard
    \/ FullExportStep
    \/ FullExportConcat
    \/ OpenCloseStep
    \/ OpenCloseConcat
    \/ StopGuard
    \/ LoadData
    \/ OverviewStep
    \/ ChartStep
    \/ DetailedChart
    \/ PortfolioStep
    \/ PortfolioFrame

\* ======================================================================
\* The batch script (src/download_selected_stocks.py)
\* ======================================================================

\* A bug the loop could have: no check for an empty frame, so .iloc[0] raises.
BatchRowsUnchecked(rows, symbol, frame) ==
    IF frame = <<>>
    THEN [rows |-> rows, raised |-> "IndexError"]
    ELSE [rows |-> ListAppend(rows, [Date |-> "yesterday", Ticker |-> symbol,
                                     Open |-> frame[1].Open, Close |-> frame[1].Close]),
          raised |-> ""]

\* download_selected_stocks.py:19-31: a symbol without data is skipped with a
\* warning, another contributes the first bar's open and close.
BatchRows(rows, symbol, frame) ==
    IF frame = <<>>
    THEN [rows |-> rows, raised |-> ""]
    ELSE [rows |-> ListAppend(rows, [Date |-> "yesterday", Ticker |-> symbol,
                                     Open |-> frame[1].Open, Close |-> frame[1].Close]),
          raised |-> ""]

\* download_selected_stocks.py:16-31, one iteration of the loop over tickers.
BatchStep ==
    /\ program = "batch" /\ pc = "start" /\ raised = ""
    /\ i <= Len(selected_symbols)
    /\ LET symbol == selected_symbols[i]
           r == BatchRows(all_rows, symbol, Download(symbol))
       IN /\ provider_calls' = Append(provider_calls, Call("download", <<symbol>>))
          /\ all_rows' = r.rows
          /\ raised' = r.raised
    /\ i' = i + 1
    /\ UNCHANGED <<catalogVars, inputVars, pc, exportVars, dashVars, df>>

\* download_selected_stocks.py:34-38: the rows become daily_open_close.xlsx.
BatchSave ==
    /\ program = "batch" /\ pc = "start" /\ raised = ""
    /\ i > Len(selected_symbols)
    /\ df' = all_rows
    /\ pc' = "done"
    /\ UNCHANGED <<catalogVars, inputVars, i, exportVars, dashVars, all_rows,
                   provider_calls, raised>>

BatchNext == BatchStep \/ BatchSave

\* ======================================================================
\* One run of a script: the inputs and the specifications
\* ======================================================================

\* The sequences over S of length up to n, and those without a repeated element
\* (what st.multiselect returns).
Seqs(S, n) == UNION {[1..m -> S] : m \in 0..n}
DistinctSeqs(S, n) == {q \in Seqs(S, n) : \A a, b \in 1..Len(q) : a # b => q[a] # q[b]}

ScriptStart ==
    /\ pc = "start" /\ i = 1
    /\ all_selected_data = <<>> /\ combined_selected_df = <<>>
    /\ daily_rows = <<>> /\ df_open_close = <<>>
    /\ data = <<>> /\ metrics = <<>> /\ ticker_csvs = <<>> /\ ma = <<>>
    /\ portfolio = <<>> /\ df_portfolio = <<>>
    /\ all_rows = <<>> /\ df = <<>>
    /\ provider_calls = <<>> /\ raised = ""

\* A run of the dashboard over distinct symbols, or of the batch script over any
\* list of tickers.json; each listed symbol has 0..MaxBars bars in the range.
Init ==
    /\ program \in {"app", "batch"}
    /\ selected_symbols \in IF program = "app" THEN DistinctSeqs(Symbols, MaxSymbols)
                                             ELSE Seqs(Symbols, MaxSymbols)
    /\ \E b \in [Range(selected_symbols) -> {Series(n, 1) : n \in 0..MaxBars}] :
          bars = [s \in Symbols |-> IF s \in DOMAIN b THEN b[s] ELSE <<>>]
    /\ infos = [s \in Symbols |-> FullInfo]
    /\ CatalogIdle
    /\ ScriptStart

Next == AppNext \/ BatchNext

Spec == Init /\ [][Next]_vars

\* A run of the dashboard over the snapshots the provider can report.
InitSnapshot ==
    /\ program = "app"
    /\ selected_symbols \in {SubSeq(default_tickers, 1, n) :
                                n \in 0..Min(MaxSnapSymbols, Len(default_tickers))}
    /\ bars = [s \in Symbols |-> IF s \in Range(selected_symbols) THEN Series(1, 1) ELSE <<>>]
    /\ \E f \in [Range(selected_symbols) -> Infos] :
          infos = [s \in Symbols |-> IF s \in DOMAIN f THEN f[s] ELSE FullInfo]
    /\ CatalogIdle
    /\ ScriptStart

SpecSnapshot == InitSnapshot /\ [][AppNext]_vars

\* A run of the dashboard over close series long enough for the moving averages:
\* AAPL has up to MaxSeries bars with a jump at the start, halfway or on the last day, MSFT none or a
\* short series.
InitMA ==
    /\ program = "app"
    /\ selected_symbols \in {<<>>, <<"AAPL">>, <<"AAPL", "MSFT">>, <<"MSFT", "AAPL">>}
    /\ \E n \in 0..MaxSeries :
       \E k \in {1, (n \div 2) + 1, n} :
       \E m \in {0, WindowMA20 + 1} :
          bars = [s \in Symbols |->
                    IF s \notin Range(selected_symbols) THEN <<>>
                    ELSE IF s = "AAPL" THEN Series(n, k)
                    ELSE Series(m, 1)]
    /\ infos = [s \in Symbols |-> FullInfo]
    /\ CatalogIdle
    /\ ScriptStart

SpecMA == InitMA /\ [][AppNext]_vars

\* ======================================================================
\* Claims about the catalog loader (checked under SpecCatalog)
\* ======================================================================

\* The primary attempt fails: the request raises, the parse raises (read_html raises
\* also when it finds no table), no table is returned, or the table lacks a column.
PrimaryFails(prim) ==
    \/ prim.kind \in {"request_raises", "parse_raises", "no_tables"}
    \/ prim.kind = "tables" /\ ~({"Symbol", "Security"} \subseteq Range(prim.df.columns))

SecondaryHasPair(sec) ==
    /\ sec.kind = "csv"
    /\ \/ {"Symbol", "Name"} \subseteq Range(sec.df.columns)
       \/ {"Symbol", "Security"} \subseteq Range(sec.df.columns)

\* The (Symbol, Security) records a secondary frame stands for: the company name is
\* the Name column's when there is one, the Security column's otherwise.
NormalizedRecords(d) ==
    LET nameCol == IF "Name" \in Range(d.columns) THEN "Name" ELSE "Security" IN
    [r \in 1..Len(d.rows) |->
        <<d.rows[r][IndexOf(d.columns, "Symbol")], d.rows[r][IndexOf(d.columns, nameCol)]>>]

\* C1: whenever a call's primary attempt fails in any of its four ways the call goes
\* on to the secondary, and with a {Symbol, Name} or {Symbol, Security} secondary it
\* returns the records under exactly the columns (Symbol, Security); when the primary
\* attempt returned a frame the secondary is not contacted.
C1_FallbackNormalizes ==
    lastCall.primary.kind # "none" =>
        /\ PrimaryFails(lastCall.primary) => lastCall.contacted = <<"primary", "secondary">>
        /\ PrimaryFails(lastCall.primary) /\ SecondaryHasPair(lastCall.secondary) =>
              /\ lastCall.outcome.kind = "returned"
              /\ lastCall.outcome.df.columns = <<"Symbol", "Security">>
              /\ lastCall.outcome.df.rows = NormalizedRecords(lastCall.secondary.df)
        /\ ~PrimaryFails(lastCall.primary) =>
              /\ lastCall.contacted = <<"primary">>
              /\ lastCall.outcome.kind = "returned"

C1_Witness ==
    /\ lastCall.primary.kind = "tables"
    /\ PrimaryFails(lastCall.primary)
    /\ lastCall.secondary.kind = "csv"
    /\ lastCall.secondary.df.columns = <<"Name", "Symbol">>
    /\ Len(lastCall.secondary.df.rows) = 1
    /\ lastCall.outcome.kind = "returned"
    /\ lastCall.outcome.df.rows = <<<<"AAPL", "Apple">>>>

NeitherParseable(c) ==
    /\ c.primary.kind # "none"
    /\ PrimaryFails(c.primary)
    /\ ~SecondaryHasPair(c.secondary)

\* C2 as stated: when neither source is parseable the call fails with a schema error
\* (the ValueError of line 34 or a missing column's KeyError).
C2_FailsWithSchemaError ==
    NeitherParseable(lastCall) =>
        /\ lastCall.outcome.kind = "raised"
        /\ lastCall.outcome.error \in {"ValueError", "KeyError"}

\* The error the fallback ends in for a secondary without a usable column pair.
ExpectedError(sec) ==
    CASE sec.kind = "unreachable" -> "URLError"
      [] sec.kind = "malformed"   -> "ParserError"
      [] {"Name", "Security"} \cap Range(sec.df.columns) = {} -> "ValueError"
      [] OTHER -> "KeyError"

\* C2 amended: when neither source is parseable the call raises and returns no
\* catalog: the schema-mismatch ValueError when the secondary was read and has neither
\* a Name nor a Security column, a KeyError when it has one of them but no Symbol,
\* and read_csv's own error when the secondary is unreachable or malformed.
C2_FailsNeverReturns ==
    NeitherParseable(lastCall) =>
        /\ lastCall.outcome.kind = "raised"
        /\ lastCall.outcome.df = EmptyDF
        /\ lastCall.outcome.error = ExpectedError(lastCall.secondary)
        /\ lastCall.contacted = <<"primary", "secondary">>

C2_Witness ==
    /\ NeitherParseable(lastCall)
    /\ lastCall.secondary.kind = "csv"
    /\ Len(lastCall.secondary.df.rows) > 0
    /\ lastCall.outcome = Raised("ValueError")

\* C7: once a call has returned a catalog every later call returns that catalog and
\* contacts no source; at most one call of the run fetched a catalog; and while every
\* call so far has raised, the next call contacts the sources again.
C7_CachedForTheRun ==
    /\ \A j, k \in 1..Len(history) :
          j < k /\ history[j].outcome.kind = "returned" =>
              /\ history[k].outcome = history[j].outcome
              /\ history[k].contacted = <<>>
    /\ fetched <= 1
    /\ Cardinality({k \in 1..Len(history) :
                      history[k].outcome.kind = "returned" /\ history[k].contacted # <<>>}) <= 1
    /\ \A k \in 1..Len(history) :
          (\A j \in 1..(k - 1) : history[j].outcome.kind = "raised") =>
              history[k].contacted # <<>>

C7_Witness ==
    /\ Len(history) = 3
    /\ history[1].outcome.kind = "raised"
    /\ history[2].outcome.kind = "returned" /\ Len(history[2].outcome.df.rows) = 1
    /\ history[3].outcome = history[2].outcome
    /\ history[3].contacted = <<>>

\* ======================================================================
\* Claims about the aggregate tables (checked under Spec)
\* ======================================================================
HasBars(s) == bars[s] # <<>>

TickersIn(table) == {table[r].Ticker : r \in 1..Len(table)}
RowsOf(table, s) == Cardinality({r \in 1..Len(table) : table[r].Ticker = s})

WithBars == {s \in Range(selected_symbols) : HasBars(s)}

FullExportBuilt == program = "app" /\ pc \notin {"start", "full_export"} /\ selected_symbols # <<>>
OpenCloseBuilt  == program = "app" /\ pc \notin {"start", "full_export", "open_close"}
BatchBuilt      == program = "batch" /\ pc = "done"
Finished        == pc \in {"done", "stopped"}

\* A run that is not over is at a statement it can execute.
CanContinue ==
    /\ pc \in {"overview", "charts"} => i \in 1..Len(selected_symbols)
    /\ pc = "detail" => selected_symbols # <<>>
    /\ pc \in {"start", "full_export", "open_close", "guard", "load_data", "overview",
               "charts", "detail", "portfolio", "done", "stopped"}

\* C4: no aggregate table ever holds a row of a symbol without bars; once built, the
\* full export, the Open/Close extract and the batch rows hold rows of exactly the
\* symbols that returned at least one bar; no run raises, and a run that is not over
\* is at a statement it can execute.
C4_OnlySymbolsWithBars ==
    /\ raised = ""
    /\ CanContinue
    /\ \A t \in {combined_selected_df, df_open_close, df, all_rows,
                 Flatten(all_selected_data), Flatten(daily_rows)} :
          TickersIn(t) \subseteq WithBars
    /\ FullExportBuilt =>
          /\ TickersIn(combined_selected_df) = WithBars
          /\ \A s \in WithBars : RowsOf(combined_selected_df, s) = Len(bars[s])
    /\ OpenCloseBuilt =>
          /\ TickersIn(df_open_close) = WithBars
          /\ \A s \in WithBars : RowsOf(df_open_close, s) = Len(bars[s])
    /\ BatchBuilt => TickersIn(df) = WithBars

C4_Witness ==
    /\ program = "app" /\ pc = "done"
    /\ selected_symbols = <<"AAPL", "MSFT">>
    /\ Len(bars["AAPL"]) = 2 /\ bars["MSFT"] = <<>>
    /\ TickersIn(combined_selected_df) = {"AAPL"}
    /\ TickersIn(df_open_close) = {"AAPL"}
    /\ Len(df_open_close) = 2

\* C6: with an empty symbol list no provider call is ever issued, in the dashboard
\* and in the batch script alike.
C6_EmptyListNoProviderCall ==
    selected_symbols = <<>> => provider_calls = <<>> /\ data = <<>>

C6_Witness ==
    /\ selected_symbols = <<>>
    /\ program = "app" /\ pc = "stopped"
    /\ provider_calls = <<>>

\* a comes before b in the input: every place of a is before every place of b.
Before(a, b) ==
    /\ a # b
    /\ \A p, q \in 1..Len(selected_symbols) :
          selected_symbols[p] = a /\ selected_symbols[q] = b => p < q

InInputOrder(table) ==
    \A r1, r2 \in 1..Len(table) :
        Before(table[r1].Ticker, table[r2].Ticker) => r1 < r2

\* C8: in the full export, the Open/Close extract, the portfolio summary and the
\* batch rows, whenever a comes before b in the input all of a's rows come before
\* all of b's rows.
C8_InputOrderKept ==
    /\ InInputOrder(combined_selected_df)
    /\ InInputOrder(df_open_close)
    /\ InInputOrder(df_portfolio)
    /\ InInputOrder(df)

C8_Witness ==
    /\ program = "app" /\ pc = "done"
    /\ selected_symbols = <<"NVDA", "MSFT", "AAPL">>
    /\ bars["MSFT"] = <<>>
    /\ [r \in 1..Len(df_open_close) |-> df_open_close[r].Ticker]
          = <<"NVDA", "NVDA", "AAPL">>
    /\ [r \in 1..Len(df_portfolio) |-> df_portfolio[r].Ticker]
          = <<"NVDA", "MSFT", "AAPL">>

\* ======================================================================
\* Claims about the moving averages (checked under SpecMA)
\* ======================================================================

\* The exact mean of close[r-w+1..r], as a fraction in lowest terms.
RECURSIVE TotalOf(_, _, _)
TotalOf(close, from, count) ==
    IF count = 0 THEN 0 ELSE close[from].num + TotalOf(close, from + 1, count - 1)

MeanOfLast(close, r, w) == Frac(TotalOf(close, r - w + 1, w), w)

\* column is the simple rolling mean of close over w rows: undefined on rows
\* 1..w-1, the mean of the last w closes from row w on (where those are all defined).
IsRollingMean(close, column, w) ==
    /\ Len(column) = Len(close)
    /\ \A r \in 1..Len(close) :
          IF r < w THEN column[r] = NaN
          ELSE IF \A j \in (r - w + 1)..r : close[j].kind = "num"
               THEN column[r] = MeanOfLast(close, r, w)
               ELSE column[r] = NaN

\* C5 as stated: the two moving-average columns are rolling means over 20 and 30 rows.
C5_Windows20And30 ==
    \A k \in 1..Len(ma) :
        /\ IsRollingMean(ma[k].Close, ma[k].MA20, 20)
        /\ IsRollingMean(ma[k].Close, ma[k].MA50, 30)

\* C5 amended: the two moving-average columns (MA20, MA50) are simple rolling means
\* of close over 20 and 50 rows.
C5_Windows20And50 ==
    \A k \in 1..Len(ma) :
        /\ IsRollingMean(ma[k].Close, ma[k].MA20, 20)
        /\ IsRollingMean(ma[k].Close, ma[k].MA50, 50)

C5_Witness ==
    /\ Len(ma) = 1
    /\ Len(ma[1].Close) > 50
    /\ ma[1].MA20[19] = NaN /\ ma[1].MA20[20].kind = "num"
    /\ ma[1].MA50[49] = NaN /\ ma[1].MA50[50].kind = "num"
    /\ ma[1].MA50[50] # ma[1].MA50[51]

\* ======================================================================
\* Claims about the snapshot fields (checked under SpecSnapshot)
\* ======================================================================
Absent(s, key) == key \notin DOMAIN infos[s]
AbsentOrZero(s, key) == Absent(s, key) \/ infos[s][key] = 0

\* The change percent of a snapshot with both prices and a nonzero previous close.
ExpectedChange(s) ==
    Frac((infos[s]["currentPrice"] - infos[s]["previousClose"]) * 100,
         infos[s]["previousClose"])

Undefined(v) == v.kind \in {"None", "nan"}

\* C3: for a symbol whose previousClose is absent or zero, the overview's delta is
\* the not-available marker and the portfolio's "Change %" is undefined.
C3_NoChangeWithoutPreviousClose ==
    /\ \A k \in 1..Len(metrics) :
          AbsentOrZero(metrics[k].label, "previousClose") => metrics[k].delta = NA
    /\ \A r \in 1..Len(df_portfolio) :
          AbsentOrZero(df_portfolio[r].Ticker, "previousClose") =>
              Undefined(df_portfolio[r].ChangePct)

\* C9: a missing currentPrice, previousClose or marketCap is shown as not available
\* or left out, in the overview and in the portfolio summary; never as a number.
C9_MissingFieldsNotNumbers ==
    /\ \A k \in 1..Len(metrics) :
          /\ Absent(metrics[k].label, "currentPrice") => metrics[k].value = NA
          /\ Absent(metrics[k].label, "marketCap") => metrics[k].caption = NotShown
    /\ \A r \in 1..Len(df_portfolio) :
          LET row == df_portfolio[r] IN
          /\ Absent(row.Ticker, "currentPrice") =>
                row.Price.kind # "num" /\ row.shown.Price.text # "fmt"
          /\ Absent(row.Ticker, "previousClose") =>
                row.PreviousClose.kind # "num" /\ row.shown.PreviousClose.text # "fmt"
          /\ Absent(row.Ticker, "marketCap") =>
                row.MarketCapB.kind # "num" /\ row.shown.MarketCapB.text # "fmt"

BothPresent(s) ==
    /\ ~Absent(s, "currentPrice")
    /\ ~Absent(s, "previousClose")
    /\ infos[s]["previousClose"] # 0

\* C10: for a snapshot with currentPrice and previousClose present and previousClose
\* nonzero, the overview's delta and the portfolio's "Change %" are both
\* (currentPrice - previousClose) / previousClose * 100, never the marker.
C10_ChangeIsComputed ==
    /\ \A k \in 1..Len(metrics) :
          BothPresent(metrics[k].label) =>
              metrics[k].delta = Format2(ExpectedChange(metrics[k].label))
    /\ \A r \in 1..Len(df_portfolio) :
          BothPresent(df_portfolio[r].Ticker) =>
              df_portfolio[r].ChangePct = ExpectedChange(df_portfolio[r].Ticker)

====
